---- MODULE Spec2Model ----
(***************************************************************************)
(* Model of the btrfs sysfs registry of fs/btrfs/sysfs.c (the second,      *)
(* dynamically allocating design, lines 400-963): attribute tables, the    *)
(* show/store dispatch functions, and the life cycle of the fixed nodes    *)
(* (devices, health, info) and of the device nodes.  The kobject core and  *)
(* the sysfs host are not part of the file; they are modelled from the     *)
(* design text (reference counted nodes, a host that holds a reference     *)
(* while a dispatch is in flight).                                         *)
(* The first design of the file (lines 1-398: a static "devices" node, a   *)
(* completion per node, names derived from device paths) is modelled by    *)
(* the definitions whose names end in _v1.                                 *)
(***************************************************************************)
EXTENDS Integers, Sequences, FiniteSets, TLC

VARIABLES
    pc,        \* position of the init/exit caller (module load / unload)
    kset,      \* btrfs_kset: "none", "added", "unregistered"
    ptr,       \* the globals btrfs_devices, btrfs_health, btrfs_info
    kobj,      \* per node: the embedded struct kobject and its bookkeeping
    held,      \* per device node: references the storage engine holds
    counters,  \* per device node: the five error counters of the device
    rd,        \* per reader thread: the dispatch in flight
    out,       \* the last completed dispatch and its result
    ret,       \* the last init or create call: what kobject_init_and_add
               \* gave it (add) and what it returned (val)
    waiting    \* per device node: a btrfs_kill_device caller of the first
               \* design is blocked in wait_for_completion

vars == <<pc, kset, ptr, kobj, held, counters, rd, out, ret, waiting>>

----------------------------------------------------------------------------
(* Bounds of the model *)

\* cap on the reference count of one node
MaxRef == 3
\* cap on the references the storage engine holds on one device node
MaxHeld == 2
\* cap on the number of times the release callback of one device node runs
MaxReleases == 2

FixedNodes == {"devices", "health", "info"}
Devs == {"k1", "k2"}
Nodes == FixedNodes \cup Devs
Labels == {"sda", "sdb"}
Readers == {"r1", "r2"}

Fields == {"cnt_write_io_errs", "cnt_read_io_errs", "cnt_flush_io_errs",
           "cnt_corruption_errs", "cnt_generation_errs"}

\* names a dispatch may ask for: every attribute of the file, a prefix of
\* one, and a name no table holds
AttrNames == {"num_devices", "dummy", "dummy1", "uuid", "label", "cnt", "bogus"}
                 \cup Fields
\* names used by dispatches that run concurrently with the life cycle
LifecycleAttrs == {"dummy", "num_devices", "uuid"}

Range(s) == {s[i] : i \in 1..Len(s)}

\* cap on the length of the generated device paths
MaxPathLen == 4
\* char device_name[64] of the first design's btrfs_create_device
DeviceNameSize == 64

----------------------------------------------------------------------------
(* 32-bit counter values, kept as two 16-bit limbs <<high, low>> *)

U32(h, l) == <<h, l>>
Zero32 == U32(0, 0)
One32 == U32(0, 1)
IntMax32 == U32(32767, 65535)
IntMin32 == U32(32768, 0)
UIntMax32 == U32(65535, 65535)
Samples == <<Zero32, One32, IntMax32, IntMin32, UIntMax32>>

Digit(i) == <<"0", "1", "2", "3", "4", "5", "6", "7", "8", "9">>[i + 1]

\* v \div 10 and v % 10 of an unsigned 32-bit value, by long division on limbs
Div10(v) ==
    LET t == (v[1] % 10) * 65536 + v[2]
    IN  U32(v[1] \div 10, t \div 10)
Mod10(v) == ((v[1] % 10) * 65536 + v[2]) % 10

RECURSIVE DecU(_)
\* the decimal digits of an unsigned 32-bit value
DecU(v) ==
    IF v[1] = 0 /\ v[2] < 10 THEN <<Digit(v[2])>>
    ELSE DecU(Div10(v)) \o <<Digit(Mod10(v))>>

\* two's complement negation of a 32-bit pattern
Neg32(v) ==
    U32((65535 - v[1] + (IF v[2] = 0 THEN 1 ELSE 0)) % 65536,
        (65536 - v[2]) % 65536)

\* sprintf(buf, "%d\n", x): the pattern is printed as a signed int
sprintf_d(v) ==
    (IF v[1] >= 32768 THEN <<"-">> \o DecU(Neg32(v)) ELSE DecU(v)) \o <<"\n">>

----------------------------------------------------------------------------
(* Device paths and the name derivation of the first design.  A path is a   *)
(* sequence of characters.                                                  *)

PathChars == {"/", "a"}

RECURSIVE SeqsUpTo(_)
\* every sequence of PathChars of length n or less
SeqsUpTo(n) ==
    IF n = 0 THEN {<<>>}
    ELSE LET shorter == SeqsUpTo(n - 1)
         IN  shorter \cup {Append(q, c) : q \in shorter, c \in PathChars}

RECURSIVE Repeat(_, _)
Repeat(c, n) == IF n = 0 THEN <<>> ELSE <<c>> \o Repeat(c, n - 1)

RECURSIVE Str(_)
\* the string a sequence of characters spells (what "%s" prints of it)
Str(q) == IF q = <<>> THEN "" ELSE q[1] \o Str(Tail(q))

DevSda1 == <<"/", "d", "e", "v", "/", "s", "d", "a", "1">>
Sda1 == <<"s", "d", "a", "1">>
\* a path whose copy, with its terminator, does not fit device_name
LongPath == <<"/", "d", "e", "v", "/">> \o Repeat("a", DeviceNameSize - 5)
Paths == SeqsUpTo(MaxPathLen) \cup {DevSda1, Sda1, LongPath}

\* strsep(&ptr, "/"): the token before the first separator; the string
\* pointer moves past the separator, or becomes NULL when there is none
strsep(stringp) ==
    LET I == {i \in 1..Len(stringp) : stringp[i] = "/"}
    IN  IF I = {} THEN [curr |-> stringp, null |-> TRUE, rest |-> <<>>]
        ELSE LET i == CHOOSE i \in I : \A j \in I : i <= j
             IN  [curr |-> SubSeq(stringp, 1, i - 1), null |-> FALSE,
                  rest |-> SubSeq(stringp, i + 1, Len(stringp))]

RECURSIVE strsep_loop(_)
\* for(ptr=device_name; (curr=strsep(&ptr,"/"))!=NULL; prev=curr); gives prev
strsep_loop(stringp) ==
    LET r == strsep(stringp) IN IF r.null THEN r.curr ELSE strsep_loop(r.rest)

\* what a name reads as after the copy ran over the end of device_name
Clobbered == <<"?">>

\* mutant: the first token of the path is kept instead of the last
device_name_first(dev_name, smash) == strsep(dev_name).curr

\* strcpy(device_name, dev_name) and the loop: the copy of a path of
\* DeviceNameSize characters or more writes past the buffer, over the
\* locals next to it
device_name(dev_name, smash) ==
    IF Len(dev_name) < DeviceNameSize \/ smash = "intact"
    THEN strsep_loop(dev_name)
    ELSE Clobbered

----------------------------------------------------------------------------
(* Attribute descriptors and node type descriptors *)

BTRFS_ATTR(mode, show, store) == [mode |-> mode, show |-> show, store |-> store]
BTRFS_DEVICE_ATTR(mode, show, store) == [mode |-> mode, show |-> show, store |-> store]

btrfs_attr(name) ==
    CASE name = "num_devices" -> BTRFS_ATTR("0444", "NULL", "NULL")
      [] name = "dummy" -> BTRFS_ATTR("0444", "NULL", "NULL")
      [] name = "dummy1" -> BTRFS_ATTR("0444", "NULL", "NULL")
      [] name = "uuid" -> BTRFS_DEVICE_ATTR("0444", "NULL", "NULL")
      [] name = "label" -> BTRFS_DEVICE_ATTR("0444", "NULL", "NULL")
      [] name = "cnt_write_io_errs" ->
            BTRFS_DEVICE_ATTR("0444", "device_write_io_err_show", "NULL")
      [] name = "cnt_read_io_errs" ->
            BTRFS_DEVICE_ATTR("0444", "device_read_io_err_show", "NULL")
      [] name = "cnt_flush_io_errs" ->
            BTRFS_DEVICE_ATTR("0444", "device_flush_io_err_show", "NULL")
      [] name = "cnt_corruption_errs" ->
            BTRFS_DEVICE_ATTR("0444", "device_corruption_err_show", "NULL")
      [] name = "cnt_generation_errs" ->
            BTRFS_DEVICE_ATTR("0444", "device_generation_err_show", "NULL")

btrfs_info_default_attrs == <<"num_devices">>
btrfs_health_default_attrs == <<"dummy">>
btrfs_devices_default_attrs == <<"dummy1">>
\* mutant: the "devices" directory gets the attribute list of btrfs_ktype_devices
btrfs_device_dir_default_attrs_dummy1 == <<"dummy1">>
btrfs_device_dir_default_attrs == <<>>
btrfs_device_default_attrs ==
    <<"uuid", "label", "cnt_write_io_errs", "cnt_read_io_errs",
      "cnt_flush_io_errs", "cnt_corruption_errs", "cnt_generation_errs">>

btrfs_ktype_info ==
    [sysfs_ops |-> "btrfs_sysfs_ops", release |-> "btrfs_kobject_release",
     default_attrs |-> btrfs_info_default_attrs]
\* mutant: "health" is given the attribute list of btrfs_ktype_devices
btrfs_ktype_health_devices ==
    [sysfs_ops |-> "btrfs_sysfs_ops", release |-> "btrfs_kobject_release",
     default_attrs |-> btrfs_devices_default_attrs]
btrfs_ktype_health ==
    [sysfs_ops |-> "btrfs_sysfs_ops", release |-> "btrfs_kobject_release",
     default_attrs |-> btrfs_health_default_attrs]
btrfs_ktype_devices ==
    [sysfs_ops |-> "btrfs_sysfs_ops", release |-> "btrfs_kobject_release",
     default_attrs |-> btrfs_devices_default_attrs]
btrfs_ktype_device_dir ==
    [sysfs_ops |-> "btrfs_sysfs_ops", release |-> "btrfs_kobject_release",
     default_attrs |-> btrfs_device_dir_default_attrs]
btrfs_ktype_device ==
    [sysfs_ops |-> "btrfs_device_sysfs_ops", release |-> "btrfs_device_release",
     default_attrs |-> btrfs_device_default_attrs]

\* the descriptors of the first design: the same directory type, and a
\* device type with the five counters only (each printed by the offset
\* accessor btrfs_device_show, also with "%d"); both release callbacks
\* complete the node's completion
btrfs_device_default_attrs_v1 ==
    <<"cnt_write_io_errs", "cnt_read_io_errs", "cnt_flush_io_errs",
      "cnt_corruption_errs", "cnt_generation_errs">>
btrfs_ktype_device_dir_v1 ==
    [sysfs_ops |-> "btrfs_sysfs_ops", release |-> "btrfs_kobject_release_v1",
     default_attrs |-> btrfs_device_dir_default_attrs]
btrfs_ktype_device_v1 ==
    [sysfs_ops |-> "btrfs_device_sysfs_ops", release |-> "btrfs_device_release_v1",
     default_attrs |-> btrfs_device_default_attrs_v1]

\* the descriptor a kobject's ktype field refers to
KType(t) ==
    CASE t = "btrfs_ktype_info" -> btrfs_ktype_info
      [] t = "btrfs_ktype_health" -> btrfs_ktype_health
      [] t = "btrfs_ktype_devices" -> btrfs_ktype_devices
      [] t = "btrfs_ktype_device_dir" -> btrfs_ktype_device_dir
      [] t = "btrfs_ktype_device" -> btrfs_ktype_device
      [] t = "btrfs_ktype_device_dir_v1" -> btrfs_ktype_device_dir_v1
      [] t = "btrfs_ktype_device_v1" -> btrfs_ktype_device_v1
      [] OTHER -> [sysfs_ops |-> "none", release |-> "none", default_attrs |-> <<>>]

----------------------------------------------------------------------------
(* The show accessors of a device node *)

\* the device record found from the node (superblock copy lookup)
device_stats(n) == counters[n]

device_write_io_err_show(n) == sprintf_d(device_stats(n)["cnt_write_io_errs"])
device_read_io_err_show(n) == sprintf_d(device_stats(n)["cnt_read_io_errs"])
device_flush_io_err_show(n) == sprintf_d(device_stats(n)["cnt_flush_io_errs"])
device_corruption_err_show(n) == sprintf_d(device_stats(n)["cnt_corruption_errs"])
device_generation_err_show(n) == sprintf_d(device_stats(n)["cnt_generation_errs"])

\* a call through the show function pointer of an attribute
CallShow(fn, n) ==
    CASE fn = "device_write_io_err_show" -> device_write_io_err_show(n)
      [] fn = "device_read_io_err_show" -> device_read_io_err_show(n)
      [] fn = "device_flush_io_err_show" -> device_flush_io_err_show(n)
      [] fn = "device_corruption_err_show" -> device_corruption_err_show(n)
      [] fn = "device_generation_err_show" -> device_generation_err_show(n)

Result(status, buf, called) == [status |-> status, buf |-> buf, called |-> called]

----------------------------------------------------------------------------
(* The dispatch layer: the sysfs_ops of the two kinds of node *)

btrfs_kobject_attr_store(n, a) ==
    IF btrfs_attr(a).store = "NULL" THEN Result("-EIO", <<>>, "none")
    ELSE Result("ok", <<>>, btrfs_attr(a).store)

btrfs_kobject_attr_show(n, a) ==
    IF btrfs_attr(a).show = "NULL" THEN Result("-EIO", <<>>, "none")
    ELSE Result("ok", CallShow(btrfs_attr(a).show, n), btrfs_attr(a).show)

btrfs_device_attr_store(n, a) ==
    IF btrfs_attr(a).store = "NULL" THEN Result("-EIO", <<>>, "none")
    ELSE Result("ok", <<>>, btrfs_attr(a).store)

btrfs_device_attr_show(n, a) ==
    IF btrfs_attr(a).show = "NULL" THEN Result("-EIO", <<>>, "none")
    ELSE Result("ok", CallShow(btrfs_attr(a).show, n), btrfs_attr(a).show)

btrfs_sysfs_ops(dir, n, a) ==
    IF dir = "write" THEN btrfs_kobject_attr_store(n, a)
    ELSE btrfs_kobject_attr_show(n, a)

btrfs_device_sysfs_ops(dir, n, a) ==
    IF dir = "write" THEN btrfs_device_attr_store(n, a)
    ELSE btrfs_device_attr_show(n, a)

\* a call through the sysfs_ops pointer of a node type descriptor
CallOps(ops, dir, n, a) ==
    IF ops = "btrfs_sysfs_ops" THEN btrfs_sysfs_ops(dir, n, a)
    ELSE btrfs_device_sysfs_ops(dir, n, a)

----------------------------------------------------------------------------
(* The kobject core: reference counted nodes in a namespace *)

NoKobj ==
    [state_initialized |-> FALSE, state_in_sysfs |-> FALSE, kref |-> 0,
     name |-> "", parent |-> "none", ktype |-> "none", ktype_ref |-> "none",
     released |-> 0, freed |-> FALSE, release_fault |-> FALSE,
     unregister |-> 0]

\* a live child of that name under that parent
NameTaken(ks, parent, name) ==
    \E m \in Nodes : ks[m].state_in_sysfs /\ ks[m].parent = parent /\ ks[m].name = name

\* kobject_init_and_add: the count starts at one; the add fails on an
\* allocation failure (err) or when the parent already has the name
kobject_init_and_add(ks, n, ktype, ktype_ref, parent, name, err) ==
    LET init == [ks EXCEPT ![n].state_initialized = TRUE, ![n].kref = 1,
                           ![n].ktype = ktype, ![n].ktype_ref = ktype_ref]
    IN  IF err # "ok" THEN [ks |-> init, ret |-> err]
        ELSE IF NameTaken(ks, parent, name) THEN [ks |-> init, ret |-> "-EEXIST"]
        ELSE [ks |-> [init EXCEPT ![n].state_in_sysfs = TRUE, ![n].name = name,
                                  ![n].parent = parent],
              ret |-> "ok"]

kobject_get(ks, n) == [ks EXCEPT ![n].kref = @ + 1]

kobject_del(ks, n) ==
    [ks EXCEPT ![n].state_in_sysfs = FALSE, ![n].name = "", ![n].parent = "none"]

\* the completion embedded next to the kobject (btrfs_kobj_unregister,
\* btrfs_device_unregister): a count of completes not yet waited for
init_completion(ks, n) == [ks EXCEPT ![n].unregister = 0]
complete(ks, n) == [ks EXCEPT ![n].unregister = @ + 1]
completion_done(ks, n) == ks[n].unregister > 0
wait_for_completion(ks, n) == [ks EXCEPT ![n].unregister = @ - 1]

\* the release callbacks of the first design: complete, no kfree, no put
btrfs_kobject_release_v1(ks, n) ==
    complete([ks EXCEPT ![n].released = @ + 1], n)

\* mutant: the device release callback does not complete the completion
btrfs_device_release_v1_silent(ks, n) == [ks EXCEPT ![n].released = @ + 1]

btrfs_device_release_v1(ks, n) ==
    complete([ks EXCEPT ![n].released = @ + 1], n)

RECURSIVE kobject_put(_, _, _)

\* the release callback of the fixed nodes: kfree of the node
btrfs_kobject_release(ks, n) ==
    [ks EXCEPT ![n].released = @ + 1, ![n].freed = TRUE]

\* the release callback of a device node: a further kobject_put
btrfs_device_release(ks, n, intact) ==
    kobject_put([ks EXCEPT ![n].released = @ + 1], n, intact)

\* kobject_cleanup: leave the namespace, then call ktype->release.  A ktype
\* pointer that refers to a dead stack frame reads either the old bytes
\* (intact) or whatever overwrote them, and the call then faults.
kobject_cleanup(ks, n, intact) ==
    LET k1 == IF ks[n].state_in_sysfs THEN kobject_del(ks, n) ELSE ks
    IN  IF k1[n].ktype_ref = "dangling" /\ ~intact
        THEN [k1 EXCEPT ![n].release_fault = TRUE]
        ELSE CASE KType(k1[n].ktype).release = "btrfs_kobject_release" ->
                     btrfs_kobject_release(k1, n)
               [] KType(k1[n].ktype).release = "btrfs_device_release" ->
                     btrfs_device_release(k1, n, intact)
               [] KType(k1[n].ktype).release = "btrfs_kobject_release_v1" ->
                     btrfs_kobject_release_v1(k1, n)
               [] KType(k1[n].ktype).release = "btrfs_device_release_v1" ->
                     btrfs_device_release_v1(k1, n)

\* kobject_put: a null pointer is ignored; the cleanup runs when the count
\* reaches exactly zero
kobject_put(ks, n, intact) ==
    IF n = "NULL" THEN ks
    ELSE LET k1 == [ks EXCEPT ![n].kref = @ - 1]
         IN  IF k1[n].kref = 0 THEN kobject_cleanup(k1, n, intact) ELSE k1

\* the attribute files the host created for a registered node
Files(ks, n) ==
    IF ks[n].state_in_sysfs THEN Range(KType(ks[n].ktype).default_attrs) ELSE {}

----------------------------------------------------------------------------
(* The life-cycle manager *)

\* mutant: a failed kobject_init_and_add is not followed by kobject_put
btrfs_kobject_create_noput(ks, name, ktype, btrfs_parent, alloc_ok, err) ==
    IF ~alloc_ok THEN [ks |-> ks, ret |-> "NULL", add |-> "none"]
    ELSE LET parent == IF btrfs_parent = "NULL" THEN "kset" ELSE "root"
             r == kobject_init_and_add(ks, name, ktype, "stack", parent, name, err)
         IN  IF r.ret # "ok"
             THEN [ks |-> r.ks, ret |-> "NULL", add |-> r.ret]
             ELSE [ks |-> [r.ks EXCEPT ![name].ktype_ref = "dangling"],
                   ret |-> name, add |-> r.ret]

\* btrfs_kobject_create: the descriptor is passed by value, so the node is
\* bound to the copy in the caller's frame; the parent pointer is computed
\* and then not handed to kobject_init_and_add
btrfs_kobject_create(ks, name, ktype, btrfs_parent, alloc_ok, err) ==
    IF ~alloc_ok THEN [ks |-> ks, ret |-> "NULL", add |-> "none"]
    ELSE LET parent == IF btrfs_parent = "NULL" THEN "kset" ELSE "root"
             r == kobject_init_and_add(ks, name, ktype, "stack", parent, name, err)
         IN  IF r.ret # "ok"
             THEN [ks |-> kobject_put(r.ks, name, TRUE), ret |-> "NULL", add |-> r.ret]
             ELSE [ks |-> [r.ks EXCEPT ![name].ktype_ref = "dangling"],
                   ret |-> name, add |-> r.ret]

\* mutant: the destroy frees the node itself instead of dropping a reference
btrfs_kobject_destroy_kfree(ks, btrfs_kobj, intact) ==
    IF btrfs_kobj = "NULL" THEN ks
    ELSE btrfs_kobject_release(kobject_del(ks, btrfs_kobj), btrfs_kobj)

btrfs_kobject_destroy(ks, btrfs_kobj, intact) == kobject_put(ks, btrfs_kobj, intact)

\* the release callback was reached through a clobbered descriptor in this step
Faulted(before, after, n) ==
    n # "NULL" /\ after[n].release_fault /\ ~before[n].release_fault

Idle == [node |-> "none", attr |-> "", dir |-> ""]
NoOut == [node |-> "none", attr |-> "", dir |-> "", status |-> "none",
          buf |-> <<>>, called |-> "none"]

InFlight(n) == Cardinality({t \in Readers : rd[t].node = n})

Init ==
    /\ pc = "start"
    /\ kset = "none"
    /\ ptr = [n \in FixedNodes |-> "NULL"]
    /\ kobj = [n \in Nodes |-> NoKobj]
    /\ held = [d \in Devs |-> 0]
    /\ counters = [d \in Devs |-> [f \in Fields |-> Zero32]]
    /\ rd = [t \in Readers |-> Idle]
    /\ out = NoOut
    /\ ret = [add |-> "none", val |-> "none"]
    /\ waiting = [d \in Devs |-> FALSE]

\* btrfs_init_sysfs, first half: kset_create_and_add
btrfs_init_sysfs ==
    /\ pc = "start"
    /\ \E ok \in BOOLEAN :
          IF ok THEN /\ kset' = "added"
                     /\ pc' = "init_devices"
                     /\ UNCHANGED ret
          ELSE /\ pc' = "failed"
               /\ ret' = [add |-> "none", val |-> "-ENOMEM"]
               /\ UNCHANGED kset
    /\ UNCHANGED <<ptr, kobj, held, counters, rd, out, waiting>>

\* btrfs_static_init_sysfs: create "devices"; on failure goto btrfs_devices_error
btrfs_static_init_devices ==
    /\ pc = "init_devices"
    /\ \E alloc_ok \in BOOLEAN, err \in {"ok", "-ENOMEM"} :
          LET r == btrfs_kobject_create(kobj, "devices", "btrfs_ktype_device_dir",
                                        "NULL", alloc_ok, err)
          IN  /\ kobj' = r.ks
              /\ ptr' = [ptr EXCEPT !["devices"] = r.ret]
              /\ IF r.ret = "NULL"
                 THEN /\ pc' = "failed"
                      /\ ret' = [add |-> r.add, val |-> "-EINVAL"]
                 ELSE /\ pc' = "init_health"
                      /\ UNCHANGED ret
    /\ UNCHANGED <<kset, held, counters, rd, out, waiting>>

\* create "health"; on failure btrfs_health_error: destroy(btrfs_health)
btrfs_static_init_health ==
    /\ pc = "init_health"
    /\ \E alloc_ok \in BOOLEAN, err \in {"ok", "-ENOMEM"} :
          LET r == btrfs_kobject_create(kobj, "health", "btrfs_ktype_health",
                                        "NULL", alloc_ok, err)
          IN  /\ ptr' = [ptr EXCEPT !["health"] = r.ret]
              /\ IF r.ret = "NULL"
                 THEN /\ kobj' = btrfs_kobject_destroy(r.ks, r.ret, TRUE)
                      /\ pc' = "failed"
                      /\ ret' = [add |-> r.add, val |-> "-EINVAL"]
                 ELSE /\ kobj' = r.ks
                      /\ pc' = "init_info"
                      /\ UNCHANGED ret
    /\ UNCHANGED <<kset, held, counters, rd, out, waiting>>

\* create "info"; on failure btrfs_info_error: destroy(btrfs_info), then
\* btrfs_health_error: destroy(btrfs_health)
btrfs_static_init_info ==
    /\ pc = "init_info"
    /\ \E alloc_ok \in BOOLEAN, err \in {"ok", "-ENOMEM"}, intact \in BOOLEAN :
          LET r == btrfs_kobject_create(kobj, "info", "btrfs_ktype_info",
                                        "NULL", alloc_ok, err)
          IN  /\ ptr' = [ptr EXCEPT !["info"] = r.ret]
              /\ IF r.ret = "NULL"
                 THEN LET k1 == btrfs_kobject_destroy(r.ks, r.ret, intact)
                          k2 == btrfs_kobject_destroy(k1, ptr["health"], intact)
                      IN  /\ kobj' = k2
                          /\ IF Faulted(kobj, k2, ptr["health"])
                             THEN pc' = "oops" /\ UNCHANGED ret
                             ELSE /\ pc' = "failed"
                                  /\ ret' = [add |-> r.add, val |-> "-EINVAL"]
                 ELSE /\ kobj' = r.ks
                      /\ pc' = "ready"
                      /\ ret' = [add |-> r.add, val |-> "0"]
    /\ UNCHANGED <<kset, held, counters, rd, out, waiting>>

\* mutant: the node is registered again whether or not it is initialized
btrfs_create_device_reinit(super_kobj, label) ==
    /\ pc = "ready"
    /\ held[super_kobj] < MaxHeld
    /\ kobj[super_kobj].kref < MaxRef
    /\ \E err \in {"ok", "-ENOMEM"} :
          LET r == kobject_init_and_add(kobj, super_kobj, "btrfs_ktype_device",
                                        "static", ptr["devices"], label, err)
          IN  IF r.ret # "ok"
              THEN /\ kobj' = kobject_put(r.ks, super_kobj, TRUE)
                   /\ ret' = [add |-> r.ret, val |-> "-EINVAL"]
                   /\ UNCHANGED held
              ELSE /\ kobj' = r.ks
                   /\ held' = [held EXCEPT ![super_kobj] = @ + 1]
                   /\ ret' = [add |-> r.ret, val |-> "0"]
    /\ UNCHANGED <<pc, kset, ptr, counters, rd, out, waiting>>

\* mutant: the result of kobject_init_and_add is not looked at
btrfs_create_device_nocheck(super_kobj, label) ==
    /\ pc = "ready"
    /\ held[super_kobj] < MaxHeld
    /\ kobj[super_kobj].kref < MaxRef
    /\ IF kobj[super_kobj].state_initialized
       THEN /\ kobj' = kobject_get(kobj, super_kobj)
            /\ ret' = [add |-> "none", val |-> "0"]
       ELSE \E err \in {"ok", "-ENOMEM"} :
               LET r == kobject_init_and_add(kobj, super_kobj, "btrfs_ktype_device",
                                             "static", ptr["devices"], label, err)
               IN  /\ kobj' = r.ks
                   /\ ret' = [add |-> r.ret, val |-> "0"]
    /\ held' = [held EXCEPT ![super_kobj] = @ + 1]
    /\ UNCHANGED <<pc, kset, ptr, counters, rd, out, waiting>>

\* btrfs_create_device: attach a device node under "devices"
btrfs_create_device(super_kobj, label) ==
    /\ pc = "ready"
    /\ held[super_kobj] < MaxHeld
    /\ kobj[super_kobj].kref < MaxRef
    /\ IF kobj[super_kobj].state_initialized
       THEN /\ kobj' = kobject_get(kobj, super_kobj)
            /\ held' = [held EXCEPT ![super_kobj] = @ + 1]
            /\ ret' = [add |-> "none", val |-> "0"]
       ELSE \E err \in {"ok", "-ENOMEM"} :
               LET r == kobject_init_and_add(kobj, super_kobj, "btrfs_ktype_device",
                                             "static", ptr["devices"], label, err)
               IN  IF r.ret # "ok"
                   THEN /\ kobj' = kobject_put(r.ks, super_kobj, TRUE)
                        /\ ret' = [add |-> r.ret, val |-> "-EINVAL"]
                        /\ UNCHANGED held
                   ELSE /\ kobj' = r.ks
                        /\ held' = [held EXCEPT ![super_kobj] = @ + 1]
                        /\ ret' = [add |-> r.ret, val |-> "0"]
    /\ UNCHANGED <<pc, kset, ptr, counters, rd, out, waiting>>

\* btrfs_kill_device: drop one reference of the storage engine
btrfs_kill_device(super_kobj) ==
    /\ held[super_kobj] > 0
    /\ kobj[super_kobj].released < MaxReleases
    /\ kobj' = kobject_put(kobj, super_kobj, TRUE)
    /\ held' = [held EXCEPT ![super_kobj] = @ - 1]
    /\ UNCHANGED <<pc, kset, ptr, counters, rd, out, ret, waiting>>

\* one btrfs_kobject_destroy call of btrfs_exit_sysfs
ExitDestroy(n, from, to) ==
    /\ pc = from
    /\ \E intact \in BOOLEAN :
          LET k1 == btrfs_kobject_destroy(kobj, ptr[n], intact)
          IN  /\ kobj' = k1
              /\ pc' = IF Faulted(kobj, k1, ptr[n]) THEN "oops" ELSE to
    /\ UNCHANGED <<kset, ptr, held, counters, rd, out, ret, waiting>>

\* btrfs_exit_sysfs, called once every device node has been given back
btrfs_exit_sysfs_devices ==
    /\ \A d \in Devs : held[d] = 0
    /\ ExitDestroy("devices", "ready", "exit_health")

btrfs_exit_sysfs_health == ExitDestroy("health", "exit_health", "exit_info")

btrfs_exit_sysfs_info == ExitDestroy("info", "exit_info", "exit_kset")

btrfs_exit_sysfs_kset ==
    /\ pc = "exit_kset"
    /\ kset' = "unregistered"
    /\ pc' = "exited"
    /\ UNCHANGED <<ptr, kobj, held, counters, rd, out, ret, waiting>>

\* the node type each fixed node is created with
FixedKtype(n) ==
    CASE n = "devices" -> "btrfs_ktype_device_dir"
      [] n = "health" -> "btrfs_ktype_health"
      [] n = "info" -> "btrfs_ktype_info"

\* a call of btrfs_kobject_create by a user of the life-cycle manager: any of
\* the three names not yet created, under no parent or under a node that
\* exists
create_node(name, btrfs_parent) ==
    /\ pc = "node_api"
    /\ ptr[name] = "NULL"
    /\ ~kobj[name].state_initialized
    /\ btrfs_parent # name
    /\ btrfs_parent # "NULL" => ptr[btrfs_parent] # "NULL"
    /\ \E alloc_ok \in BOOLEAN, err \in {"ok", "-ENOMEM"} :
          LET r == btrfs_kobject_create(kobj, name, FixedKtype(name),
                                        btrfs_parent, alloc_ok, err)
          IN  /\ kobj' = r.ks
              /\ ptr' = [ptr EXCEPT ![name] = r.ret]
              /\ ret' = [add |-> r.add,
                         val |-> IF r.ret = "NULL" THEN "NULL" ELSE "0"]
    /\ UNCHANGED <<pc, kset, held, counters, rd, out, waiting>>

\* a call of btrfs_kobject_destroy on a node create_node returned
destroy_node(n) ==
    /\ pc = "node_api"
    /\ ptr[n] # "NULL"
    /\ \E intact \in BOOLEAN :
          LET k1 == btrfs_kobject_destroy(kobj, ptr[n], intact)
          IN  /\ kobj' = k1
              /\ pc' = IF Faulted(kobj, k1, ptr[n]) THEN "oops" ELSE pc
    /\ ptr' = [ptr EXCEPT ![n] = "NULL"]
    /\ UNCHANGED <<kset, held, counters, rd, out, ret, waiting>>

\* ---- the first design: a static "devices" node, and a completion per node
\* that the release callback completes and destroy / kill wait for ----

\* btrfs_kobject_init_sysfs: arm the completion and register "devices"
btrfs_kobject_init_sysfs_v1(ks, err) ==
    LET k0 == init_completion(ks, "devices")
        r == kobject_init_and_add(k0, "devices", "btrfs_ktype_device_dir_v1",
                                  "static", "kset", "devices", err)
    IN  IF r.ret # "ok"
        THEN [ks |-> kobject_put(r.ks, "devices", TRUE), ret |-> "-EINVAL",
              add |-> r.ret]
        ELSE [ks |-> r.ks, ret |-> "0", add |-> r.ret]

\* btrfs_init_sysfs of the first design
btrfs_init_sysfs_v1 ==
    /\ pc = "start"
    /\ \E ok \in BOOLEAN, err \in {"ok", "-ENOMEM"} :
          IF ~ok
          THEN /\ pc' = "failed"
               /\ ret' = [add |-> "none", val |-> "-ENOMEM"]
               /\ UNCHANGED <<kset, kobj>>
          ELSE LET r == btrfs_kobject_init_sysfs_v1(kobj, err)
               IN  /\ kset' = "added"
                   /\ kobj' = r.ks
                   /\ ret' = [add |-> r.add, val |-> r.ret]
                   /\ pc' = IF r.ret = "0" THEN "v1_ready" ELSE "failed"
    /\ UNCHANGED <<ptr, held, counters, rd, out, waiting>>

\* what strcpy(device_name, dev_name) can do to the frame
StrcpyOutcomes(dev_name) ==
    IF Len(dev_name) < DeviceNameSize THEN {"intact"}
    ELSE {"intact", "clobbered", "fault"}

\* btrfs_create_device of the first design, for a device the storage engine
\* has not attached: derive the name, arm the completion, register
btrfs_create_device_v1(device_kobj, dev_name) ==
    /\ pc = "v1_ready"
    /\ held[device_kobj] = 0
    /\ ~waiting[device_kobj]
    /\ kobj[device_kobj].released < MaxReleases
    /\ \E smash \in StrcpyOutcomes(dev_name), err \in {"ok", "-ENOMEM"} :
          LET prev == device_name(dev_name, smash)
              k0 == init_completion(kobj, device_kobj)
              r == kobject_init_and_add(k0, device_kobj, "btrfs_ktype_device_v1",
                                        "static", "devices", Str(prev), err)
          IN  IF smash = "fault"
              THEN /\ pc' = "oops"
                   /\ UNCHANGED <<kobj, held, ret>>
              ELSE IF r.ret # "ok"
              THEN /\ kobj' = kobject_put(r.ks, device_kobj, TRUE)
                   /\ ret' = [add |-> r.ret, val |-> "-EINVAL"]
                   /\ UNCHANGED <<pc, held>>
              ELSE /\ kobj' = r.ks
                   /\ held' = [held EXCEPT ![device_kobj] = 1]
                   /\ ret' = [add |-> r.ret, val |-> "0"]
                   /\ UNCHANGED pc
    /\ UNCHANGED <<kset, ptr, counters, rd, out, waiting>>

\* btrfs_kill_device of the first design, up to the wait: kobject_put
btrfs_kill_device_v1(device_kobj) ==
    /\ pc = "v1_ready"
    /\ held[device_kobj] = 1
    /\ ~waiting[device_kobj]
    /\ kobj' = kobject_put(kobj, device_kobj, TRUE)
    /\ held' = [held EXCEPT ![device_kobj] = 0]
    /\ waiting' = [waiting EXCEPT ![device_kobj] = TRUE]
    /\ UNCHANGED <<pc, kset, ptr, counters, rd, out, ret>>

\* mutant: the kill returns without waiting for the completion
btrfs_kill_device_v1_return_nowait(device_kobj) ==
    /\ waiting[device_kobj]
    /\ waiting' = [waiting EXCEPT ![device_kobj] = FALSE]
    /\ UNCHANGED <<pc, kset, ptr, kobj, held, counters, rd, out, ret>>

\* wait_for_completion of btrfs_kill_device returns, and the kill with it
btrfs_kill_device_v1_return(device_kobj) ==
    /\ waiting[device_kobj]
    /\ completion_done(kobj, device_kobj)
    /\ kobj' = wait_for_completion(kobj, device_kobj)
    /\ waiting' = [waiting EXCEPT ![device_kobj] = FALSE]
    /\ UNCHANGED <<pc, kset, ptr, held, counters, rd, out, ret>>

\* btrfs_exit_sysfs of the first design, up to the wait of
\* btrfs_kobject_destroy(&btrfs_devices); called once every device was killed
btrfs_exit_sysfs_v1 ==
    /\ pc = "v1_ready"
    /\ \A d \in Devs : held[d] = 0 /\ ~waiting[d]
    /\ kobj' = kobject_put(kobj, "devices", TRUE)
    /\ pc' = "v1_exit_wait"
    /\ UNCHANGED <<kset, ptr, held, counters, rd, out, ret, waiting>>

\* the wait of btrfs_kobject_destroy returns; kset_unregister; exit returns
btrfs_exit_sysfs_v1_return ==
    /\ pc = "v1_exit_wait"
    /\ completion_done(kobj, "devices")
    /\ kobj' = wait_for_completion(kobj, "devices")
    /\ kset' = "unregistered"
    /\ pc' = "exited"
    /\ UNCHANGED <<ptr, held, counters, rd, out, ret, waiting>>

\* the host starts a read or write of attribute a of node n: the name is
\* looked up among the node's files and the host takes a reference
sysfs_begin(t, n, a, dir) ==
    /\ rd[t] = Idle
    /\ kobj[n].state_in_sysfs
    /\ IF a \notin Files(kobj, n)
       THEN /\ out' = [node |-> n, attr |-> a, dir |-> dir, status |-> "-ENOENT",
                       buf |-> <<>>, called |-> "none"]
            /\ UNCHANGED <<kobj, rd>>
       ELSE /\ kobj[n].kref < MaxRef
            /\ kobj' = kobject_get(kobj, n)
            /\ rd' = [rd EXCEPT ![t] = [node |-> n, attr |-> a, dir |-> dir]]
            /\ UNCHANGED out
    /\ UNCHANGED <<pc, kset, ptr, held, counters, ret, waiting>>

\* the host calls the node type's sysfs_ops and drops its reference
sysfs_end(t) ==
    /\ rd[t] # Idle
    /\ \E intact \in BOOLEAN :
          LET n == rd[t].node
              a == rd[t].attr
              dir == rd[t].dir
              req == [node |-> n, attr |-> a, dir |-> dir]
              res == CallOps(KType(kobj[n].ktype).sysfs_ops, dir, n, a)
              k1 == kobject_put(kobj, n, intact)
          IN  IF kobj[n].freed
              THEN /\ out' = req @@ Result("dangling", <<>>, "none")
                   /\ UNCHANGED kobj
              ELSE IF kobj[n].ktype_ref = "dangling" /\ ~intact
              THEN /\ out' = req @@ Result("fault", <<>>, "none")
                   /\ UNCHANGED kobj
              ELSE /\ kobj' = k1
                   /\ out' = IF Faulted(kobj, k1, n)
                             THEN req @@ Result("fault", <<>>, "none")
                             ELSE req @@ res
    /\ rd' = [rd EXCEPT ![t] = Idle]
    /\ UNCHANGED <<pc, kset, ptr, held, counters, ret, waiting>>

\* a fixed node as btrfs_kobject_create leaves it
ReadyKobj(n) ==
    [NoKobj EXCEPT !.state_initialized = TRUE, !.state_in_sysfs = TRUE,
                   !.kref = 1, !.name = n, !.parent = "kset",
                   !.ktype = FixedKtype(n), !.ktype_ref = "dangling"]

\* a device node as the first btrfs_create_device leaves it
AttachedKobj(label) ==
    [NoKobj EXCEPT !.state_initialized = TRUE, !.state_in_sysfs = TRUE,
                   !.kref = 1, !.name = label, !.parent = "devices",
                   !.ktype = "btrfs_ktype_device", !.ktype_ref = "static"]

\* the registry after btrfs_init_sysfs returned 0
Ready ==
    /\ pc = "ready"
    /\ kset = "added"
    /\ ptr = [n \in FixedNodes |-> n]
    /\ rd = [t \in Readers |-> Idle]
    /\ out = NoOut
    /\ ret = [add |-> "ok", val |-> "0"]
    /\ waiting = [d \in Devs |-> FALSE]

\* the ready registry, no device attached yet
InitReady ==
    /\ Ready
    /\ kobj = [n \in Nodes |-> IF n \in FixedNodes THEN ReadyKobj(n) ELSE NoKobj]
    /\ held = [d \in Devs |-> 0]
    /\ counters = [d \in Devs |-> [f \in Fields |-> Zero32]]

FieldOrder ==
    <<"cnt_write_io_errs", "cnt_read_io_errs", "cnt_flush_io_errs",
      "cnt_corruption_errs", "cnt_generation_errs">>
FieldIndex(f) == CHOOSE i \in 1..Len(FieldOrder) : FieldOrder[i] = f

\* the ready registry with device k1 attached as "sda"; the five counters
\* hold the five sample values, in one of the five rotations
InitAttached ==
    /\ Ready
    /\ kobj = [n \in Nodes |-> IF n \in FixedNodes THEN ReadyKobj(n)
                               ELSE IF n = "k1" THEN AttachedKobj("sda") ELSE NoKobj]
    /\ held = [d \in Devs |-> IF d = "k1" THEN 1 ELSE 0]
    /\ \E s \in 0..(Len(Samples) - 1) :
          counters = [d \in Devs |->
                        [f \in Fields |->
                           IF d = "k1"
                           THEN Samples[((FieldIndex(f) - 1 + s) % Len(Samples)) + 1]
                           ELSE Zero32]]

NextInit ==
    \/ btrfs_init_sysfs
    \/ btrfs_static_init_devices
    \/ btrfs_static_init_health
    \/ btrfs_static_init_info

NextExit ==
    \/ btrfs_exit_sysfs_devices
    \/ btrfs_exit_sysfs_health
    \/ btrfs_exit_sysfs_info
    \/ btrfs_exit_sysfs_kset

NextDevice ==
    \/ \E d \in Devs, l \in Labels : btrfs_create_device(d, l)
    \/ \E d \in Devs : btrfs_kill_device(d)

Next ==
    \/ NextInit
    \/ NextExit
    \/ NextDevice
    \/ \E t \in Readers, n \in Nodes, a \in LifecycleAttrs, dir \in {"read", "write"} :
          sysfs_begin(t, n, a, dir)
    \/ \E t \in Readers : sysfs_end(t)

\* the whole registry: init, device attach and detach, exit, and dispatches.
\* The three specifications below take its parts one at a time: the fixed
\* nodes and the device nodes share no state (exit waits for every device
\* reference to be given back), and the dispatch layer reads the tables only.
Spec == Init /\ [][Next]_vars

NextRegistry ==
    \/ NextInit
    \/ NextExit
    \/ \E t \in Readers, n \in FixedNodes, a \in {"dummy", "num_devices"},
          dir \in {"read", "write"} : sysfs_begin(t, n, a, dir)
    \/ \E t \in Readers : sysfs_end(t)

\* the fixed nodes from init to exit, with dispatches against them
SpecRegistry == Init /\ [][NextRegistry]_vars

NextAttach ==
    \/ NextDevice
    \/ \E t \in Readers, n \in Devs, a \in {"uuid", "dummy"}, dir \in {"read", "write"} :
          sysfs_begin(t, n, a, dir)
    \/ \E t \in Readers : sysfs_end(t)

\* the device nodes of a ready registry, with dispatches against them
SpecDevice == InitReady /\ [][NextAttach]_vars

\* init, device attach and detach, and exit, with no dispatch in flight
SpecLifecycle == Init /\ [][NextInit \/ NextExit \/ NextDevice]_vars

\* btrfs_exit_sysfs as the code has it: its first btrfs_kobject_destroy does
\* not look at the device nodes the storage engine still has attached
btrfs_exit_sysfs_devices_attached == ExitDestroy("devices", "ready", "exit_health")

\* btrfs_create_device called once btrfs_exit_sysfs has begun: btrfs_devices
\* still holds the address of the node that exit put.  When that node was
\* freed, the registration reads freed memory: it finds the old bytes and
\* registers beneath them, or it faults.
btrfs_create_device_late(super_kobj, label) ==
    /\ pc \in {"exit_health", "exit_info", "exit_kset", "exited"}
    /\ held[super_kobj] < MaxHeld
    /\ kobj[super_kobj].kref < MaxRef
    /\ IF kobj[super_kobj].state_initialized
       THEN /\ kobj' = kobject_get(kobj, super_kobj)
            /\ held' = [held EXCEPT ![super_kobj] = @ + 1]
            /\ ret' = [add |-> "none", val |-> "0"]
            /\ UNCHANGED pc
       ELSE \E err \in {"ok", "-ENOMEM"}, intact \in BOOLEAN :
               LET r == kobject_init_and_add(kobj, super_kobj, "btrfs_ktype_device",
                                             "static", ptr["devices"], label, err)
               IN  IF kobj[ptr["devices"]].freed /\ ~intact
                   THEN /\ pc' = "oops"
                        /\ UNCHANGED <<kobj, held, ret>>
                   ELSE IF r.ret # "ok"
                   THEN /\ kobj' = kobject_put(r.ks, super_kobj, TRUE)
                        /\ ret' = [add |-> r.ret, val |-> "-EINVAL"]
                        /\ UNCHANGED <<held, pc>>
                   ELSE /\ kobj' = r.ks
                        /\ held' = [held EXCEPT ![super_kobj] = @ + 1]
                        /\ ret' = [add |-> r.ret, val |-> "0"]
                        /\ UNCHANGED pc
    /\ UNCHANGED <<kset, ptr, counters, rd, out, waiting>>

NextInterleave ==
    \/ NextDevice
    \/ \E d \in Devs, l \in Labels : btrfs_create_device_late(d, l)
    \/ btrfs_exit_sysfs_devices_attached
    \/ btrfs_exit_sysfs_health
    \/ btrfs_exit_sysfs_info
    \/ btrfs_exit_sysfs_kset

\* device attach and detach of a ready registry, with exit called at any
\* moment
SpecInterleave == InitReady /\ [][NextInterleave]_vars

\* the kset exists and no node has been created
InitKset ==
    /\ pc = "node_api"
    /\ kset = "added"
    /\ ptr = [n \in FixedNodes |-> "NULL"]
    /\ kobj = [n \in Nodes |-> NoKobj]
    /\ held = [d \in Devs |-> 0]
    /\ counters = [d \in Devs |-> [f \in Fields |-> Zero32]]
    /\ rd = [t \in Readers |-> Idle]
    /\ out = NoOut
    /\ ret = [add |-> "none", val |-> "none"]
    /\ waiting = [d \in Devs |-> FALSE]

NextNode ==
    \/ \E n \in FixedNodes, p \in FixedNodes \cup {"NULL"} : create_node(n, p)
    \/ \E n \in FixedNodes : destroy_node(n)

\* btrfs_kobject_create and btrfs_kobject_destroy called with every argument
SpecNode == InitKset /\ [][NextNode]_vars

\* the first design's attach and detach, with every path
NextName ==
    \/ btrfs_init_sysfs_v1
    \/ \E d \in Devs, p \in Paths : btrfs_create_device_v1(d, p)
    \/ \E d \in Devs : btrfs_kill_device_v1(d)
    \/ \E d \in Devs : btrfs_kill_device_v1_return(d)

SpecName == Init /\ [][NextName]_vars

\* the paths the storage engine attaches devices by when dispatches run
\* alongside
EnginePaths == {DevSda1, <<"/", "a">>}

NextV1 ==
    \/ btrfs_init_sysfs_v1
    \/ \E d \in Devs, p \in EnginePaths : btrfs_create_device_v1(d, p)
    \/ \E d \in Devs : btrfs_kill_device_v1(d)
    \/ \E d \in Devs : btrfs_kill_device_v1_return(d)
    \/ btrfs_exit_sysfs_v1
    \/ btrfs_exit_sysfs_v1_return
    \/ \E t \in Readers, n \in Devs \cup {"devices"} :
          sysfs_begin(t, n, "cnt_read_io_errs", "read")
    \/ \E t \in Readers : sysfs_end(t)

\* the first design from init to exit, with dispatches against its nodes
SpecV1 == Init /\ [][NextV1]_vars

\* the first design with its scheduling: a dispatch in flight completes, and
\* a caller blocked in wait_for_completion runs once the completion is done
FairSpecV1 ==
    /\ SpecV1
    /\ \A t \in Readers : WF_vars(sysfs_end(t))
    /\ \A d \in Devs : WF_vars(btrfs_kill_device_v1_return(d))
    /\ WF_vars(btrfs_exit_sysfs_v1_return)

NextDispatch ==
    \/ \E n \in Nodes, a \in AttrNames, dir \in {"read", "write"} :
          sysfs_begin("r1", n, a, dir)
    \/ sysfs_end("r1")

\* reads and writes of every name against every registered node
SpecDispatch == InitAttached /\ [][NextDispatch]_vars

----------------------------------------------------------------------------
(* Properties *)

\* btrfs_kobject_destroy has returned to btrfs_exit_sysfs for this fixed node
DestroyReturned(n) ==
    CASE n = "devices" -> pc \in {"exit_health", "exit_info", "exit_kset", "exited"}
      [] n = "health" -> pc \in {"exit_info", "exit_kset", "exited"}
      [] n = "info" -> pc \in {"exit_kset", "exited"}

\* the references held on a device node: the storage engine's, and one for
\* each dispatch in flight
Holders(d) == held[d] + InFlight(d)

\* C1: at the step where btrfs_kobject_destroy returns for a fixed node, no
\* dispatch is in flight against that node any more and the node's release
\* callback has run.
C1_DestroyBlocks ==
    [][\A n \in FixedNodes :
          (~DestroyReturned(n) /\ DestroyReturned(n)')
             => (InFlight(n)' = 0 /\ kobj'[n].released = 1)]_vars

\* C2: no dispatch in flight refers to a fixed node whose storage has been
\* freed, and no completed dispatch found its node freed.
C2_NoDanglingDispatch ==
    /\ \A t \in Readers : rd[t] # Idle => ~kobj[rd[t].node].freed
    /\ out.status # "dangling"

\* C2 witness: destroy has returned for a fixed node while two dispatches are
\* still in flight against it, and the node is not freed.
C2_Witness ==
    \E n \in FixedNodes :
       DestroyReturned(n) /\ InFlight(n) = 2 /\ ~kobj[n].freed /\ kobj[n].kref = 2

\* C3: the release callback of a node runs once only, and only at the moment
\* the last reference is given back: a step that runs it is the first such
\* step for the node and leaves no reference held.
C3_ReleaseExactlyOnce ==
    [][\A d \in Devs :
          kobj'[d].released # kobj[d].released
             => (kobj[d].released = 0 /\ kobj'[d].released = 1 /\ Holders(d)' = 0)]_vars

\* the namespace entry of a node
Entry(k) == [in |-> k.state_in_sysfs, name |-> k.name, parent |-> k.parent]

\* C8: btrfs_create_device on an already initialized node returns 0, adds
\* exactly one to the node's reference count, does not call
\* kobject_init_and_add, and changes no namespace entry and nothing else of
\* any node.
C8_IdempotentAttach ==
    [][\A d \in Devs, l \in Labels :
          (btrfs_create_device(d, l) /\ kobj[d].state_initialized)
             => /\ ret' = [add |-> "none", val |-> "0"]
                /\ kobj' = [kobj EXCEPT ![d].kref = kobj[d].kref + 1]
                /\ \A m \in Nodes : Entry(kobj'[m]) = Entry(kobj[m])]_vars

\* C8 witness: a registered device node attached twice, two references held.
C8_Witness ==
    /\ kobj["k1"].state_in_sysfs
    /\ kobj["k1"].kref = 2
    /\ held["k1"] = 2
    /\ ret = [add |-> "none", val |-> "0"]

\* C9: btrfs_create_device of a fresh node under a name that "devices"
\* already holds fails with -EINVAL, and every other node (entry, reference
\* count, backing object) is as it was.
C9_DuplicateNameFails ==
    [][\A d \in Devs, l \in Labels :
          (btrfs_create_device(d, l) /\ ~kobj[d].state_initialized
              /\ NameTaken(kobj, "devices", l))
             => /\ ret'.val = "-EINVAL"
                /\ ret'.add \in {"-EEXIST", "-ENOMEM"}
                /\ held' = held
                /\ counters' = counters
                /\ \A m \in Nodes \ {d} : kobj'[m] = kobj[m]]_vars

\* C9 witness: k1 is registered as "sda" with its one reference, and the
\* attach of k2 under a taken name has just failed with -EEXIST.
C9_Witness ==
    /\ ret = [add |-> "-EEXIST", val |-> "-EINVAL"]
    /\ kobj["k1"] = AttachedKobj("sda")
    /\ held = [d \in Devs |-> IF d = "k1" THEN 1 ELSE 0]
    /\ kobj["k2"].state_initialized /\ ~kobj["k2"].state_in_sysfs

\* C10: when the btrfs_kill_device call that gives back the storage engine's
\* last reference returns, no dispatch is in flight against the device node.
C10_KillSynchronous ==
    [][\A d \in Devs : (held[d] = 1 /\ held'[d] = 0) => InFlight(d)' = 0]_vars

\* the dispatch of reader t completes in this step
Completes(t) == rd[t] # Idle /\ rd'[t] = Idle

\* C4: a read of an attribute that has no show accessor (uuid and label of a
\* device node, dummy of health, num_devices of info) ends with -EIO and
\* calls no accessor.
C4_PlaceholderReadFails ==
    [][\A t \in Readers :
          (Completes(t) /\ rd[t].dir = "read"
              /\ rd[t].attr \in {"uuid", "label", "dummy", "num_devices"})
             => (out'.status = "-EIO" /\ out'.called = "none")]_vars

\* C5: a write of any attribute ends with -EIO, calls no store accessor and
\* leaves the counters of every device as they were.
C5_WriteFails ==
    [][\A t \in Readers :
          (Completes(t) /\ rd[t].dir = "write")
             => (out'.status = "-EIO" /\ out'.called = "none"
                   /\ counters' = counters)]_vars

\* the attribute names of the presented namespace
PresentedAttrs(n) ==
    CASE n = "devices" -> {}
      [] n = "health" -> {"dummy"}
      [] n = "info" -> {"num_devices"}
      [] OTHER -> {"uuid", "label"} \cup Fields

\* C6: a read or write of a name that the node's attribute set does not hold
\* ends with -ENOENT and calls no accessor; it is never in flight against
\* the node.
C6_UnknownNameNotFound ==
    /\ (out.node # "none" /\ out.attr \notin PresentedAttrs(out.node))
          => (out.status = "-ENOENT" /\ out.called = "none")
    /\ \A t \in Readers :
          rd[t] # Idle => rd[t].attr \in PresentedAttrs(rd[t].node)

\* C6 witness: the prefix "cnt" of the counter names was asked of a device
\* node and was not found.
C6_Witness ==
    out.node = "k1" /\ out.attr = "cnt" /\ out.dir = "read" /\ out.status = "-ENOENT"

\* C7: a read of a counter attribute of a device node returns the decimal
\* digits of the unsigned value of that counter, then one newline.
C7_CounterDecimal ==
    [][\A t \in Readers :
          (Completes(t) /\ rd[t].dir = "read" /\ rd[t].node \in Devs
              /\ rd[t].attr \in Fields)
             => (out'.status = "ok"
                   /\ out'.buf = DecU(counters[rd[t].node][rd[t].attr]) \o <<"\n">>)]_vars

\* C11: a btrfs_kill_device call returns in the step that makes it, takes
\* exactly one from the reference count of the device node, and leaves the
\* backing object (not freed, counters as they were) and every other node
\* alone.
C11_KillDropsOneReference ==
    [][\A d \in Devs :
          btrfs_kill_device(d)
             => /\ kobj'[d].kref = kobj[d].kref - 1
                /\ ~kobj'[d].freed
                /\ counters' = counters
                /\ held'[d] = held[d] - 1
                /\ \A m \in Nodes \ {d} : kobj'[m] = kobj[m]]_vars

\* C12: once btrfs_exit_sysfs has unregistered the kset or has returned, the
\* release callback of each of devices, health and info has run.
C12_ExitWaitsForRelease ==
    (kset = "unregistered" \/ pc = "exited")
       => \A n \in FixedNodes : kobj[n].released = 1

\* C14: when btrfs_init_sysfs has returned an error, none of devices, health
\* and info is left registered and none is left allocated.
C14_InitRollback ==
    pc = "failed"
       => \A n \in FixedNodes :
             /\ ~kobj[n].state_in_sysfs
             /\ kobj[n].state_initialized => kobj[n].freed

\* the position of btrfs_static_init_sysfs before it creates a fixed node
InitPc(n) ==
    CASE n = "devices" -> "init_devices"
      [] n = "health" -> "init_health"
      [] n = "info" -> "init_info"

\* C13: when btrfs_kobject_create fails for a fixed node the caller gets NULL
\* and the node has no namespace entry, no reference and no storage left;
\* when btrfs_create_device fails it returns -EINVAL, the release callback of
\* the device node has run, and the node has no namespace entry and no
\* reference, and the storage engine holds no more references than before.
C13_FailedCreateReleases ==
    [][/\ \A n \in FixedNodes :
             (pc = InitPc(n) /\ pc' # pc /\ ptr'[n] = "NULL")
                => /\ ~kobj'[n].state_in_sysfs
                   /\ kobj'[n].kref < 1
                   /\ kobj'[n].state_initialized => kobj'[n].freed
       /\ \A d \in Devs, l \in Labels :
             (btrfs_create_device(d, l) /\ ret'.val # "0")
                => /\ ret'.val = "-EINVAL"
                   /\ ~kobj'[d].state_in_sysfs
                   /\ kobj'[d].kref < 1
                   /\ kobj'[d].released = kobj[d].released + 1
                   /\ held' = held]_vars

\* C13 witness: the registration of "info" failed after the allocation: the
\* node was initialized, then released and freed, and init returned -EINVAL.
C13_Witness ==
    /\ pc = "failed"
    /\ ptr["info"] = "NULL"
    /\ ret = [add |-> "-ENOMEM", val |-> "-EINVAL"]
    /\ kobj["info"].state_initialized /\ kobj["info"].freed
    /\ kobj["info"].kref = 0 /\ ~kobj["info"].state_in_sysfs

\* C19: from the return of a successful btrfs_init_sysfs until
\* btrfs_exit_sysfs, the nodes under the kset are exactly devices, health
\* and info, their files are those of the presented namespace (none, dummy,
\* num_devices), and every registered device node lies under devices with
\* exactly uuid, label and the five counters.
C19_PresentedNamespace ==
    pc = "ready"
       => /\ {n \in Nodes : kobj[n].state_in_sysfs /\ kobj[n].parent = "kset"}
                = FixedNodes
          /\ \A n \in Nodes : kobj[n].parent # "root"
          /\ \A n \in FixedNodes :
                kobj[n].name = n /\ Files(kobj, n) = PresentedAttrs(n)
          /\ \A d \in Devs :
                kobj[d].state_in_sysfs
                   => /\ kobj[d].parent = "devices"
                      /\ Files(kobj, d) = PresentedAttrs(d)

\* C19 witness: init succeeded and both devices are registered.
C19_Witness ==
    /\ pc = "ready"
    /\ kobj["k1"].state_in_sysfs /\ kobj["k2"].state_in_sysfs
    /\ kobj["k1"].name # kobj["k2"].name

\* C18: a successful btrfs_kobject_create registers the node under the given
\* name, beneath the parent it was given, or beneath the kset when it was
\* given none.
C18_RegistersUnderParent ==
    [][\A n \in FixedNodes, p \in FixedNodes \cup {"NULL"} :
          (create_node(n, p) /\ ptr'[n] # "NULL")
             => /\ kobj'[n].state_in_sysfs
                /\ kobj'[n].name = n
                /\ kobj'[n].parent = (IF p = "NULL" THEN "kset" ELSE p)]_vars

\* the part of a path after its last separator; the whole path when it has
\* none
LastComponent(path) ==
    LET I == {i \in 1..Len(path) : path[i] = "/"}
    IN  IF I = {} THEN path
        ELSE SubSeq(path, (CHOOSE i \in I : \A j \in I : j <= i) + 1, Len(path))

\* C15: a device that btrfs_create_device of the first design attached from
\* a path is entered under the last '/'-separated component of the path, and
\* under the path itself when it has no separator.
C15_NameIsLastComponent ==
    [][\A d \in Devs, dev_name \in Paths :
          (btrfs_create_device_v1(d, dev_name) /\ held'[d] = 1)
             => /\ kobj'[d].state_in_sysfs
                /\ kobj'[d].name = Str(LastComponent(dev_name))]_vars

\* the nodes of the first design
V1Nodes == Devs \cup {"devices"}

\* the references held on a node of the first design: the creator's, until
\* it calls kill or exit, and one for each dispatch in flight
V1Holders(n) ==
    InFlight(n)
      + (IF n \in Devs THEN held[n]
         ELSE IF pc = "v1_ready" THEN 1 ELSE 0)

\* the call that destroys the node is blocked in wait_for_completion
V1Waiting(n) == IF n \in Devs THEN waiting[n] ELSE pc = "v1_exit_wait"

C21_ReadNoSideEffect ==
    [][\A t \in Readers :
          (Completes(t) /\ rd[t].dir = "read")
             => /\ kobj' = [kobj EXCEPT ![rd[t].node].kref = @ - 1]
                /\ \A m \in Nodes : Entry(kobj'[m]) = Entry(kobj[m])
                /\ counters' = counters]_vars

\* C22: the reference count of a node never goes below zero: no step of
\* btrfs_create_device, btrfs_kill_device or the release callback gives back
\* a reference that nobody holds.
C22_CountNeverNegative == \A n \in Nodes : kobj[n].kref >= 0

\* C23: whenever btrfs_create_device returns success for a device, first
\* attach or attach again after the last reference was given back, the device
\* has a namespace entry under "devices" and a positive reference count.
C23_CreateSuccessRegisters ==
    [][\A d \in Devs :
          held'[d] = held[d] + 1
             => /\ kobj'[d].state_in_sysfs
                /\ kobj'[d].parent = "devices"
                /\ kobj'[d].kref > 0]_vars

\* C24: every registered device node is a child of "devices", and the destroy
\* callback of "devices" has not run (its storage is not freed) in any state
\* where a device node is registered beneath it, however create, kill and
\* exit interleave.
C24_DevicesOutlivesChildren ==
    /\ \A d \in Devs : kobj[d].state_in_sysfs => kobj[d].parent = "devices"
    /\ (\E d \in Devs : kobj[d].state_in_sysfs /\ kobj[d].parent = "devices")
          => /\ kobj["devices"].released = 0
             /\ ~kobj["devices"].freed

\* C25: every fixed node that create_node returned and whose destroy callback
\* has not run is bound to one of the static node type descriptors, never to
\* a temporary whose lifetime ended when the creating call returned.
C25_DescriptorStatic ==
    \A n \in FixedNodes :
       (ptr[n] # "NULL" /\ kobj[n].state_initialized /\ kobj[n].released = 0)
          => kobj[n].ktype_ref = "static"

====
